---- MODULE Spec2Model ----
(***************************************************************************)
(* One transcription request of scribe.ai-back: the gateway handler        *)
(* handleTranscription calls TranscriptionService.processAudio, which      *)
(* creates a working area, probes and splits the audio, runs one pipeline  *)
(* per chunk under Promise.all, and cleans up in a finally block.          *)
(*                                                                         *)
(* Node.js runs one callback at a time: each action below is the code that *)
(* runs between two awaits.  Durations and offsets are whole seconds.      *)
(* Text is a sequence of characters; an optional field of a JavaScript     *)
(* object is None when absent and Some(v) when set.                        *)
(***************************************************************************)
EXTENDS Integers, Sequences, FiniteSets, TLC

\* transcription.service.ts: private readonly CHUNK_DURATION = 60
CHUNK_DURATION == 60

\* Longest probed duration explored, in seconds.
MaxDuration == 125

\* Most fragments one correction stream delivers before it ends.
MaxFragments == 2

VARIABLES
    pc,              \* where processAudio / handleTranscription stands
    outputFolder,    \* TRUE iff the working directory exists on disk
    inputFile,       \* TRUE iff the working input file exists on disk
    chunkFiles,      \* chunk files present under the working directory
    duration,        \* result of getAudioDuration (0 before the probe)
    start,           \* loop variable of splitAudioIntoChunks
    chunks,          \* chunks array built by splitAudioIntoChunks
    chunksState,     \* the shared Array<ChunkProcessingData>
    pipe,            \* per chunk: where its async callback stands
    transcription,   \* per chunk: local const transcription
    correctedText,   \* per chunk: local let correctedText
    received,        \* per chunk: the stream fragments consumed so far
    joined,          \* state of the Promise.all promise
    failures,        \* the errors thrown by the chunk callbacks, in order
    caught,          \* the error processAudio rethrows, None if none
    result,          \* how processAudio ended: "none", "returned", "thrown"
    cleanupCalls,    \* number of calls of cleanup
    cleanupError,    \* the error caught and logged inside cleanup, None if none
    refs,            \* per chunk: which object is at chunksState[index] (the
                     \* n-th object assigned to that entry)
    handed,          \* the { chunks } payloads handed to sendWSEvent, in order,
                     \* as they read now through the objects they refer to
    events,          \* everything emitted on the client socket, in order
    sender           \* for each event, who emitted it: chunk position, 0 = gateway

vars == << pc, outputFolder, inputFile, chunkFiles, duration, start, chunks,
           chunksState, pipe, transcription, correctedText, received, joined,
           failures, caught, result, cleanupCalls, cleanupError, refs, handed,
           events, sender >>

fsVars   == << outputFolder, inputFile, chunkFiles >>
splitVars == << duration, start, chunks >>
pipeVars == << chunksState, pipe, transcription, correctedText, received, joined,
              failures, refs, handed >>

----------------------------------------------------------------------------
\* Optional values.
None == << >>
Some(v) == << v >>

\* ChunkStatus
SPLITTING == "splitting"
TRANSCRIBING == "transcribing"
CORRECTING == "correcting"
FINISHED == "finished"

\* TranscriptionEvents
PROCESSING == "transcription:processing"
PROCESS_FINISHED == "transcription:process_finished"

\* An object literal { id, status, transcription?, correction? }.
ChunkProcessingData(id, status, tr, co) ==
    [id |-> id, status |-> status, transcription |-> tr, correction |-> co]

\* An Error object: its message, and where it was raised (its identity).
Error(message, origin) == [message |-> message, origin |-> origin]

\* Texts the speech engine may return for a chunk, the empty text included.
\* Characters are written as numbers.
Transcripts == { << >>, << 0 >> }

\* delta.content of the k-th completion chunk of a stream: the one-character
\* text << k >>, or << >> for a chunk whose content is empty or absent
\* (content || '').
Contents(k) == { << >>, << k >> }

\* Durations the probe may report: none (0), shorter than one chunk, exactly
\* one chunk, and two chunks plus a short tail.
ProbeDurations == { 0, CHUNK_DURATION - 1, CHUNK_DURATION, MaxDuration }

Min(a, b) == IF a < b THEN a ELSE b

\* The chunks whose callback has been started by chunks.map.
Indexes == DOMAIN pipe

----------------------------------------------------------------------------
\* sendWSEvent(client, event, data): client.emit serialises data at once.
sendWSEvent(evs, event, data) == Append(evs, [event |-> event, data |-> data])

\* [...chunksState] as an object: a new array whose entries are the very
\* objects of chunksState; each entry is written with the object it refers
\* to and the value that object has now.
ShallowCopy(state, objects) ==
    [i \in DOMAIN state |-> [ref |-> objects[i], value |-> state[i]]]

\* object.status = status, seen through an array copy: the entry of chunk i
\* changes if it refers to that object.
AssignStatus(copy, i, object, status) ==
    [j \in DOMAIN copy |->
        IF j = i /\ copy[j].ref = object
        THEN [copy[j] EXCEPT !.value.status = status]
        ELSE copy[j]]

\* The payload { chunks: [...chunksState] }: a copy of the array.
ProcessingPayload(state) == [chunks |-> state]

\* The payload of the gateway's catch block.
ProcessFinishedPayload(error) ==
    [error |-> Some(error.message),
     message |-> "There was an error processing your request"]

Init ==
    /\ pc = "mkdir"
    /\ outputFolder = FALSE
    /\ inputFile = FALSE
    /\ chunkFiles = {}
    /\ duration = 0
    /\ start = 0
    /\ chunks = << >>
    /\ chunksState = << >>
    /\ pipe = << >>
    /\ transcription = << >>
    /\ correctedText = << >>
    /\ received = << >>
    /\ joined = [state |-> "none", reason |-> None]
    /\ failures = << >>
    /\ caught = None
    /\ result = "none"
    /\ cleanupCalls = 0
    /\ cleanupError = None
    /\ refs = << >>
    /\ handed = << >>
    /\ events = << >>
    /\ sender = << >>

\* Variant of Catch: cleanup sits at the end of the try block instead of in
\* finally, so an error skips it.
CatchSkipsCleanup(error) ==
    /\ caught' = Some(error)
    /\ cleanupCalls' = cleanupCalls
    /\ pc' = "gateway"

\* catch (error) { log; throw error } finally { await this.cleanup(...) }:
\* the error is kept for the rethrow and cleanup is called.
Catch(error) ==
    /\ caught' = Some(error)
    /\ cleanupCalls' = cleanupCalls + 1
    /\ pc' = "unlink"

\* await fs.promises.mkdir(outputFolder, { recursive: true })
Mkdir ==
    /\ pc = "mkdir"
    /\ \/ /\ outputFolder' = TRUE
          /\ pc' = "writeFile"
          /\ UNCHANGED << caught, cleanupCalls >>
       \/ /\ Catch(Error("mkdir failed", << "mkdir" >>))
          /\ UNCHANGED outputFolder
    /\ UNCHANGED << inputFile, chunkFiles, splitVars, pipeVars, result, cleanupError, events, sender >>

\* await fs.promises.writeFile(inputFile, audioData); a failed write may or
\* may not have created the file.
WriteFile ==
    /\ pc = "writeFile"
    /\ \/ /\ inputFile' = TRUE
          /\ pc' = "probe"
          /\ UNCHANGED << caught, cleanupCalls >>
       \/ /\ inputFile' \in BOOLEAN
          /\ Catch(Error("writeFile failed", << "writeFile" >>))
    /\ UNCHANGED << outputFolder, chunkFiles, splitVars, pipeVars, result, cleanupError, events, sender >>

\* getAudioDuration: ffprobe fails, or reports a duration; a falsy duration
\* is rejected with "No duration found in audio metadata".
GetAudioDuration ==
    /\ pc = "probe"
    /\ \/ /\ Catch(Error("ffprobe failed", << "ffprobe" >>))
          /\ UNCHANGED << duration, start >>
       \/ \E d \in ProbeDurations :
            IF d = 0
            THEN /\ Catch(Error("No duration found in audio metadata",
                                << "getAudioDuration" >>))
                 /\ UNCHANGED << duration, start >>
            ELSE /\ duration' = d
                 /\ start' = 0
                 /\ pc' = "split"
                 /\ UNCHANGED << caught, cleanupCalls >>
    /\ UNCHANGED << fsVars, chunks, pipeVars, result, cleanupError, events, sender >>

\* Variant of ShortCut: the test on the length of the cut is missing.
ShortCutNever(s, d) == FALSE

\* The cut starting at s, clamped to the duration d, and the test that skips
\* it: end = Math.min(start + CHUNK_DURATION, duration);
\* if (end - start < CHUNK_DURATION) continue.
CutEnd(s, d) == Min(s + CHUNK_DURATION, d)

ShortCut(s, d) == CutEnd(s, d) - s < CHUNK_DURATION

\* One iteration of the loop of splitAudioIntoChunks whose cut is a full
\* chunk: splitChunk writes the chunk file and the chunk is pushed, or
\* splitChunk rejects (the output file may have been written in part).
SplitChunk ==
    /\ pc = "split"
    /\ start < duration
    /\ LET end == CutEnd(start, duration) IN
       /\ ~ ShortCut(start, duration)
       /\ \/ /\ chunkFiles' = chunkFiles \cup { << start, end >> }
             /\ chunks' = Append(chunks, [start |-> start, end |-> end])
             /\ start' = start + CHUNK_DURATION
             /\ UNCHANGED << pc, caught, cleanupCalls >>
          \/ /\ chunkFiles' \in { chunkFiles, chunkFiles \cup { << start, end >> } }
             /\ Catch(Error("ffmpeg failed", << "splitChunk", start >>))
             /\ UNCHANGED << chunks, start >>
    /\ UNCHANGED << outputFolder, inputFile, duration, pipeVars, result, cleanupError,
                    events, sender >>

\* One iteration whose cut is shorter than CHUNK_DURATION: continue.
SplitSkip ==
    /\ pc = "split"
    /\ start < duration
    /\ ShortCut(start, duration)
    /\ start' = start + CHUNK_DURATION
    /\ UNCHANGED << pc, fsVars, duration, chunks, pipeVars, caught, result, cleanupError,
                    cleanupCalls, events, sender >>

\* The loop ends and splitAudioIntoChunks returns chunks.
SplitReturn ==
    /\ pc = "split"
    /\ ~ (start < duration)
    /\ pc' = "launch"
    /\ UNCHANGED << fsVars, splitVars, pipeVars, caught, result, cleanupError, cleanupCalls,
                    events, sender >>

----------------------------------------------------------------------------
\* Variant of LaunchState: the forEach that initialises chunksState is
\* missing, so the array grows as the callbacks assign their entries.
LaunchStateSparse(n, k) ==
    [i \in 1 .. k |-> ChunkProcessingData(i - 1, TRANSCRIBING, None, None)]

\* chunksState after the forEach that initialises it and after the first k
\* callbacks of chunks.map have run up to their first await: entries 1..k
\* are TRANSCRIBING, the others still SPLITTING.
LaunchState(n, k) ==
    [i \in 1 .. n |->
        IF i <= k THEN ChunkProcessingData(i - 1, TRANSCRIBING, None, None)
                  ELSE ChunkProcessingData(i - 1, SPLITTING, None, None)]

\* Which object each entry holds at that point: the forEach assigned a first
\* object to every entry, the first k callbacks a second one to theirs.
LaunchRefs(n, k) == [i \in 1 .. n |-> IF i <= k THEN 2 ELSE 1]

\* The events those n callbacks emit, in order.
LaunchEvents(n) ==
    [k \in 1 .. n |->
        [event |-> PROCESSING, data |-> ProcessingPayload(LaunchState(n, k))]]

\* chunks.forEach(...) and chunks.map(async ...) run without interruption:
\* every callback sets its entry to TRANSCRIBING, publishes, calls
\* transcribeChunk and suspends; then processAudio awaits Promise.all.
Launch ==
    /\ pc = "launch"
    /\ LET n == Len(chunks) IN
       /\ chunksState' = LaunchState(n, n)
       /\ events' = events \o LaunchEvents(n)
       /\ sender' = sender \o [k \in 1 .. n |-> k]
       /\ pipe' = [i \in 1 .. n |-> "transcribeChunk"]
       /\ transcription' = [i \in 1 .. n |-> << >>]
       /\ correctedText' = [i \in 1 .. n |-> << >>]
       /\ received' = [i \in 1 .. n |-> << >>]
       /\ joined' = [state |-> IF n = 0 THEN "resolved" ELSE "pending",
                     reason |-> None]
       /\ refs' = LaunchRefs(n, n)
       /\ handed' = [k \in 1 .. n |->
                        ShallowCopy(LaunchState(n, k), LaunchRefs(n, k))]
    /\ pc' = "await"
    /\ UNCHANGED << fsVars, splitVars, failures, caught, result, cleanupError, cleanupCalls >>

\* chunksState[index] = { ... }: entry i now holds a new object.
NewObject(i) == refs' = [refs EXCEPT ![i] = @ + 1]

\* Variant of Publish: the copy published is one taken before the write
\* that precedes the publication.
PublishStale(state, i) ==
    /\ events' = sendWSEvent(events, PROCESSING, ProcessingPayload(chunksState))
    /\ sender' = Append(sender, i)
    /\ handed' = Append(handed, ShallowCopy(chunksState, refs))

\* sendWSEvent(client, PROCESSING, { chunks: [...chunksState] }) by the
\* callback of chunk i, state being the array at that moment: the event is
\* emitted, and the payload handed over is a new array of the same objects.
Publish(state, i) ==
    /\ events' = sendWSEvent(events, PROCESSING, ProcessingPayload(state))
    /\ sender' = Append(sender, i)
    /\ handed' = Append(handed, ShallowCopy(state, refs'))

\* Variant of Resolve: the join is a promise nobody fulfils when the
\* callbacks have all returned.
ResolveNeverJoins(i) ==
    /\ pipe' = [pipe EXCEPT ![i] = "resolved"]
    /\ joined' = joined

\* Promise.all after the callback of chunk i has returned: fulfilled once
\* every callback has.
Resolve(i) ==
    /\ pipe' = [pipe EXCEPT ![i] = "resolved"]
    /\ joined' = IF joined.state = "pending"
                    /\ \A j \in Indexes \ { i } : pipe[j] = "resolved"
                 THEN [joined EXCEPT !.state = "resolved"]
                 ELSE joined

\* Variant of Reject: the join waits for every callback and fulfils whatever
\* their outcome (Promise.allSettled).
RejectSettled(i, error) ==
    /\ pipe' = [pipe EXCEPT ![i] = "rejected"]
    /\ joined' = IF joined.state = "pending"
                    /\ \A j \in DOMAIN pipe \ { i } :
                          pipe[j] \in { "resolved", "rejected" }
                 THEN [joined EXCEPT !.state = "resolved"]
                 ELSE joined
    /\ failures' = Append(failures, error)

\* catch (error) { log; throw error } in the callback of chunk i: its
\* promise rejects, and Promise.all rejects with the first such error.
Reject(i, error) ==
    /\ pipe' = [pipe EXCEPT ![i] = "rejected"]
    /\ joined' = IF joined.state = "pending"
                 THEN [state |-> "rejected", reason |-> Some(error)]
                 ELSE joined
    /\ failures' = Append(failures, error)

\* Variant of TranscribeOk: index is one variable shared by the callbacks
\* (holding the last index once they have all started) instead of the
\* parameter of each.
TranscribeOkSharedIndex(i, text) ==
    /\ pipe[i] = "transcribeChunk"
    /\ transcription' = [transcription EXCEPT ![i] = text]
    /\ chunksState' = [chunksState EXCEPT
           ![Len(chunksState)] =
               ChunkProcessingData(Len(chunksState) - 1, TRANSCRIBING,
                                   Some(text), None)]
    /\ NewObject(Len(chunksState))
    /\ Publish(chunksState', i)
    /\ pipe' = [pipe EXCEPT ![i] = "correctTranscription"]
    /\ UNCHANGED << pc, fsVars, splitVars, correctedText, received, joined,
                    failures, caught, result, cleanupError, cleanupCalls >>

\* transcribeChunk resolves with text: the entry is replaced, published, and
\* correctTranscription is called.
TranscribeOk(i, text) ==
    /\ pipe[i] = "transcribeChunk"
    /\ transcription' = [transcription EXCEPT ![i] = text]
    /\ chunksState' = [chunksState EXCEPT
           ![i] = ChunkProcessingData(i - 1, TRANSCRIBING, Some(text), None)]
    /\ NewObject(i)
    /\ Publish(chunksState', i)
    /\ pipe' = [pipe EXCEPT ![i] = "correctTranscription"]
    /\ UNCHANGED << pc, fsVars, splitVars, correctedText, received, joined,
                    failures, caught, result, cleanupError, cleanupCalls >>

\* transcribeChunk rejects.
TranscribeFail(i) ==
    /\ pipe[i] = "transcribeChunk"
    /\ Reject(i, Error("transcription failed", << "transcribeChunk", i - 1 >>))
    /\ UNCHANGED << pc, fsVars, splitVars, chunksState, transcription,
                    correctedText, received, caught, result, cleanupError,
                    cleanupCalls, refs, handed, events, sender >>

\* correctTranscription resolves with the stream: the entry's status is
\* assigned in place, correctedText = '' and the loop awaits the stream.
CorrectStart(i) ==
    /\ pipe[i] = "correctTranscription"
    /\ chunksState' = [chunksState EXCEPT ![i].status = CORRECTING]
    /\ handed' = [k \in DOMAIN handed |->
                    AssignStatus(handed[k], i, refs[i], CORRECTING)]
    /\ correctedText' = [correctedText EXCEPT ![i] = << >>]
    /\ pipe' = [pipe EXCEPT ![i] = "stream"]
    /\ UNCHANGED << refs, pc, fsVars, splitVars, transcription, received, joined,
                    failures, caught, result, cleanupError, cleanupCalls, events, sender >>

\* correctTranscription rejects.
CorrectFail(i) ==
    /\ pipe[i] = "correctTranscription"
    /\ Reject(i, Error("completion failed", << "correctTranscription", i - 1 >>))
    /\ UNCHANGED << pc, fsVars, splitVars, chunksState, transcription,
                    correctedText, received, caught, result, cleanupError,
                    cleanupCalls, refs, handed, events, sender >>

\* Variants of Accumulate: the content is put in front, or replaces the text.
AccumulateInFront(text, content) == content \o text
AccumulateLast(text, content) == content

\* correctedText += content
Accumulate(text, content) == text \o content

\* Variant of Truthy: no guard, every completion chunk is published.
TruthyAlways(content) == TRUE

\* if (content)
Truthy(content) == content # << >>

\* Variant of Fragment: the object literal is the one of the transcription
\* step (status TRANSCRIBING) with the correction added.
FragmentCopyPaste(i, content) ==
    /\ pipe[i] = "stream"
    /\ Len(received[i]) < MaxFragments
    /\ received' = [received EXCEPT ![i] = Append(@, content)]
    /\ correctedText' = [correctedText EXCEPT ![i] = @ \o content]
    /\ IF content # << >>
       THEN /\ chunksState' = [chunksState EXCEPT
                  ![i] = ChunkProcessingData(i - 1, TRANSCRIBING,
                            Some(transcription[i]), Some(correctedText'[i]))]
            /\ NewObject(i)
            /\ Publish(chunksState', i)
       ELSE UNCHANGED << chunksState, refs, handed, events, sender >>
    /\ UNCHANGED << pc, fsVars, splitVars, pipe, transcription, joined,
                    failures, caught, result, cleanupError, cleanupCalls >>

\* Variant of Fragment: the object literal of the loop carries the
\* correction only.
FragmentWithoutTranscription(i, content) ==
    /\ pipe[i] = "stream"
    /\ Len(received[i]) < MaxFragments
    /\ received' = [received EXCEPT ![i] = Append(@, content)]
    /\ correctedText' = [correctedText EXCEPT ![i] = Accumulate(@, content)]
    /\ IF Truthy(content)
       THEN /\ chunksState' = [chunksState EXCEPT
                  ![i] = ChunkProcessingData(i - 1, CORRECTING,
                            None, Some(correctedText'[i]))]
            /\ NewObject(i)
            /\ Publish(chunksState', i)
       ELSE UNCHANGED << chunksState, refs, handed, events, sender >>
    /\ UNCHANGED << pc, fsVars, splitVars, pipe, transcription, joined,
                    failures, caught, result, cleanupError, cleanupCalls >>

\* The stream yields one completion chunk: its content is appended, and if
\* the content is not empty the entry is replaced and published.
Fragment(i, content) ==
    /\ pipe[i] = "stream"
    /\ Len(received[i]) < MaxFragments
    /\ received' = [received EXCEPT ![i] = Append(@, content)]
    /\ correctedText' = [correctedText EXCEPT ![i] = Accumulate(@, content)]
    /\ IF Truthy(content)
       THEN /\ chunksState' = [chunksState EXCEPT
                  ![i] = ChunkProcessingData(i - 1, CORRECTING,
                            Some(transcription[i]), Some(correctedText'[i]))]
            /\ NewObject(i)
            /\ Publish(chunksState', i)
       ELSE UNCHANGED << chunksState, refs, handed, events, sender >>
    /\ UNCHANGED << pc, fsVars, splitVars, pipe, transcription, joined,
                    failures, caught, result, cleanupError, cleanupCalls >>

\* Variant of StreamFail: the FINISHED publication sits in a finally block
\* of the callback, so a failing stream still finishes the chunk.
StreamFailFinishes(i) ==
    /\ pipe[i] = "stream"
    /\ chunksState' = [chunksState EXCEPT
           ![i] = ChunkProcessingData(i - 1, FINISHED,
                     Some(transcription[i]), Some(correctedText[i]))]
    /\ NewObject(i)
    /\ Publish(chunksState', i)
    /\ Reject(i, Error("stream failed", << "correctionStream", i - 1 >>))
    /\ UNCHANGED << pc, fsVars, splitVars, transcription, correctedText,
                    received, caught, result, cleanupError, cleanupCalls >>

\* The stream throws while it is iterated.
StreamFail(i) ==
    /\ pipe[i] = "stream"
    /\ Reject(i, Error("stream failed", << "correctionStream", i - 1 >>))
    /\ UNCHANGED << pc, fsVars, splitVars, chunksState, transcription,
                    correctedText, received, caught, result, cleanupError,
                    cleanupCalls, refs, handed, events, sender >>

\* Variant of StreamEnd: the FINISHED object literal leaves the
\* transcription out.
StreamEndDropsTranscription(i) ==
    /\ pipe[i] = "stream"
    /\ chunksState' = [chunksState EXCEPT
           ![i] = ChunkProcessingData(i - 1, FINISHED,
                     None, Some(correctedText[i]))]
    /\ NewObject(i)
    /\ Publish(chunksState', i)
    /\ Resolve(i)
    /\ UNCHANGED << pc, fsVars, splitVars, transcription, correctedText,
                    received, failures, caught, result, cleanupError, cleanupCalls >>

\* Variant of StreamEnd: the callback returns its result when the stream
\* ends, without a FINISHED entry or publication.
StreamEndSilent(i) ==
    /\ pipe[i] = "stream"
    /\ Resolve(i)
    /\ UNCHANGED << pc, fsVars, splitVars, chunksState, transcription,
                    correctedText, received, failures, caught, result,
                    cleanupError, cleanupCalls, refs, handed, events, sender >>

\* The stream is exhausted: the entry becomes FINISHED, is published, and
\* the callback returns.
StreamEnd(i) ==
    /\ pipe[i] = "stream"
    /\ chunksState' = [chunksState EXCEPT
           ![i] = ChunkProcessingData(i - 1, FINISHED,
                     Some(transcription[i]), Some(correctedText[i]))]
    /\ NewObject(i)
    /\ Publish(chunksState', i)
    /\ Resolve(i)
    /\ UNCHANGED << pc, fsVars, splitVars, transcription, correctedText,
                    received, failures, caught, result, cleanupError, cleanupCalls >>

----------------------------------------------------------------------------
\* await Promise.all(...) resumes: on fulfilment the try block ends, on
\* rejection the catch block rethrows; either way finally calls cleanup.
AwaitAll ==
    /\ pc = "await"
    /\ \/ /\ joined.state = "resolved"
          /\ cleanupCalls' = cleanupCalls + 1
          /\ pc' = "unlink"
          /\ UNCHANGED caught
       \/ /\ joined.state = "rejected"
          /\ Catch(joined.reason[1])
    /\ UNCHANGED << fsVars, splitVars, pipeVars, result, cleanupError, events, sender >>

\* cleanup has ended (its own catch swallows its errors), finally is over
\* and processAudio returns, or rethrows the error it caught.
Settle ==
    /\ result' = IF caught = None THEN "returned" ELSE "thrown"
    /\ pc' = "gateway"

\* Variant of Unlink: cleanup has no try/catch, so the error of unlink leaves
\* the finally block and replaces the outcome of processAudio.
UnlinkPropagates ==
    /\ pc = "unlink"
    /\ \/ /\ inputFile
          /\ inputFile' = FALSE
          /\ pc' = "rm"
          /\ UNCHANGED << caught, result, cleanupError >>
       \/ /\ cleanupError' = Some(Error("unlink failed", << "unlink" >>))
          /\ caught' = cleanupError'
          /\ result' = "thrown"
          /\ pc' = "gateway"
          /\ UNCHANGED inputFile
    /\ UNCHANGED << outputFolder, chunkFiles, splitVars, pipeVars,
                    cleanupCalls, events, sender >>

\* cleanup: await fs.promises.unlink(inputFile).  It throws when the file
\* does not exist or on an I/O error; the catch block of cleanup logs the
\* error and the rm below is not reached.
Unlink ==
    /\ pc = "unlink"
    /\ \/ /\ inputFile
          /\ inputFile' = FALSE
          /\ pc' = "rm"
          /\ UNCHANGED << result, cleanupError >>
       \/ /\ cleanupError' = Some(Error("unlink failed", << "unlink" >>))
          /\ Settle
          /\ UNCHANGED inputFile
    /\ UNCHANGED << outputFolder, chunkFiles, splitVars, pipeVars, caught,
                    cleanupCalls, events, sender >>

\* cleanup: await fs.promises.rm(outputFolder, { recursive: true }).
Rm ==
    /\ pc = "rm"
    /\ \/ /\ outputFolder
          /\ outputFolder' = FALSE
          /\ chunkFiles' = {}
          /\ UNCHANGED cleanupError
       \/ /\ cleanupError' = Some(Error("rm failed", << "rm" >>))
          /\ UNCHANGED << outputFolder, chunkFiles >>
    /\ Settle
    /\ UNCHANGED << inputFile, splitVars, pipeVars, caught, cleanupCalls,
                    events, sender >>

\* handleTranscription after await processAudio: the catch block emits
\* PROCESS_FINISHED with error.message; the try block emits nothing.
HandleTranscription ==
    /\ pc = "gateway"
    /\ IF result = "thrown"
       THEN /\ events' = sendWSEvent(events, PROCESS_FINISHED,
                                     ProcessFinishedPayload(caught[1]))
            /\ sender' = Append(sender, 0)
       ELSE UNCHANGED << events, sender >>
    /\ pc' = "done"
    /\ UNCHANGED << fsVars, splitVars, pipeVars, caught, result, cleanupError, cleanupCalls >>

Next ==
    \/ Mkdir
    \/ WriteFile
    \/ GetAudioDuration
    \/ SplitChunk
    \/ SplitSkip
    \/ SplitReturn
    \/ Launch
    \/ \E i \in Indexes, text \in Transcripts : TranscribeOk(i, text)
    \/ \E i \in Indexes : TranscribeFail(i)
    \/ \E i \in Indexes : CorrectStart(i)
    \/ \E i \in Indexes : CorrectFail(i)
    \/ \E i \in Indexes : \E content \in Contents(Len(received[i]) + 1) :
          Fragment(i, content)
    \/ \E i \in Indexes : StreamFail(i)
    \/ \E i \in Indexes : StreamEnd(i)
    \/ AwaitAll
    \/ Unlink
    \/ Rm
    \/ HandleTranscription

Spec == Init /\ [][Next]_vars

\* splitAudioIntoChunks on its own: every duration up to MaxDuration, in the
\* state processAudio is in when it calls it.
InitSplit ==
    /\ pc = "split"
    /\ outputFolder = TRUE
    /\ inputFile = TRUE
    /\ chunkFiles = {}
    /\ duration \in 1 .. MaxDuration
    /\ start = 0
    /\ chunks = << >>
    /\ chunksState = << >>
    /\ pipe = << >>
    /\ transcription = << >>
    /\ correctedText = << >>
    /\ received = << >>
    /\ joined = [state |-> "none", reason |-> None]
    /\ failures = << >>
    /\ caught = None
    /\ result = "none"
    /\ cleanupCalls = 0
    /\ cleanupError = None
    /\ refs = << >>
    /\ handed = << >>
    /\ events = << >>
    /\ sender = << >>

NextSplit == SplitChunk \/ SplitSkip \/ SplitReturn

SpecSplit == InitSplit /\ [][NextSplit]_vars

\* The most chunks a request can have.
MaxChunks == MaxDuration \div CHUNK_DURATION

\* A step of processAudio itself or of the gateway handler awaiting it.
MainStep ==
    \/ Mkdir
    \/ WriteFile
    \/ GetAudioDuration
    \/ SplitChunk
    \/ SplitSkip
    \/ SplitReturn
    \/ Launch
    \/ AwaitAll
    \/ Unlink
    \/ Rm
    \/ HandleTranscription

\* A step of the callback of chunk i.
PipelineStep(i) ==
    /\ i \in Indexes
    /\ \/ \E text \in Transcripts : TranscribeOk(i, text)
       \/ TranscribeFail(i)
       \/ CorrectStart(i)
       \/ CorrectFail(i)
       \/ \E content \in Contents(Len(received[i]) + 1) : Fragment(i, content)
       \/ StreamFail(i)
       \/ StreamEnd(i)

\* Every external call eventually returns or fails and the event loop
\* resumes every continuation that is ready: processAudio and each callback
\* eventually take the step they are waiting for.  The streams are finite
\* (at most MaxFragments fragments).
Fairness ==
    /\ WF_vars(MainStep)
    /\ \A i \in 1 .. MaxChunks : WF_vars(PipelineStep(i))

SpecLive == Spec /\ Fairness

----------------------------------------------------------------------------
\* Vocabulary of the properties.

\* The callback of chunk i has been started and has neither returned nor
\* thrown.
Running(i) == pipe[i] \notin { "resolved", "rejected" }

\* cleanup has been called and has not ended.
CleanupRunning == pc \in { "unlink", "rm" }

\* processAudio has returned or thrown.
Ended == result # "none"

\* Positions of the events of one kind on the client socket.
Emitted(event) == { k \in DOMAIN events : events[k].event = event }

\* C1: when cleanup runs, no chunk callback of the request is still running.
C1_CleanupAfterPipelines ==
    CleanupRunning => \A i \in Indexes : ~ Running(i)

\* C2: once processAudio has returned or thrown, neither the working
\* directory nor the working input file exists.
C2_WorkingAreaRemoved ==
    Ended => ~ outputFolder /\ ~ inputFile

\* C3: when the handler is done exactly one process-finished event has been
\* emitted; it carries no error after a success and the error message after a
\* failure.
C3_ExactlyOneProcessFinished ==
    pc = "done" =>
        /\ Cardinality(Emitted(PROCESS_FINISHED)) = 1
        /\ \A k \in Emitted(PROCESS_FINISHED) :
              IF result = "returned"
              THEN events[k].data.error = None
              ELSE events[k].data.error = Some(caught[1].message)

\* C4: no processing event follows the process-finished event.
C4_ProcessFinishedIsLast ==
    \A j \in Emitted(PROCESS_FINISHED), k \in Emitted(PROCESSING) : k < j

\* The process-finished events carrying a given error message.
FinishedWith(message) ==
    { k \in Emitted(PROCESS_FINISHED) : events[k].data.error = Some(message) }

\* If a chunk callback has failed, processAudio ends by throwing the error
\* of the first callback that failed, and the handler then emits one
\* process-finished event carrying that error's non-empty message.
C5_FailsWithFirstError ==
    /\ (failures # << >> /\ Ended) =>
           /\ result = "thrown"
           /\ caught = Some(failures[1])
    /\ (failures # << >> /\ pc = "done") =>
           /\ failures[1].message # ""
           /\ Emitted(PROCESS_FINISHED) = FinishedWith(failures[1].message)
           /\ Cardinality(Emitted(PROCESS_FINISHED)) = 1

\* No callback is started once a callback has failed.
C5_NoStartAfterFailure ==
    failures # << >> => DOMAIN pipe' = DOMAIN pipe

\* C5: all-or-fail join, the two parts above together.
C5_AllOrFailJoin ==
    [] C5_FailsWithFirstError /\ [][C5_NoStartAfterFailure]_vars

\* Both callbacks failed, the second chunk's first, and the handler is done.
C5_Witness ==
    /\ pc = "done"
    /\ Len(failures) = 2
    /\ failures[1].origin[2] = 1

\* The request failed before Promise.all: in the probe or in an extraction.
EarlyFailure ==
    /\ caught # None
    /\ caught[1].origin[1] \in { "ffprobe", "getAudioDuration", "splitChunk" }

\* C6: after a failure of the probe or of an extraction no callback is ever
\* started (so no transcription or correction call is made), no processing
\* event is emitted, cleanup has been called, and processAudio ends by
\* throwing that error.
C6_EarlyFailureAborts ==
    EarlyFailure =>
        /\ pipe = << >>
        /\ Emitted(PROCESSING) = {}
        /\ cleanupCalls = 1
        /\ pc \in { "unlink", "rm", "gateway", "done" }
        /\ Ended => result = "thrown"
        /\ pc = "done" =>
              Emitted(PROCESS_FINISHED) = FinishedWith(caught[1].message)

\* The second extraction failed and the request is over.
C6_Witness ==
    /\ pc = "done"
    /\ EarlyFailure
    /\ caught[1].origin = << "splitChunk", CHUNK_DURATION >>
    /\ Len(chunks) = 1

\* All the fragments of a stream, concatenated in order.
RECURSIVE Concatenation(_)
Concatenation(fragments) ==
    IF fragments = << >> THEN << >>
    ELSE Head(fragments) \o Concatenation(Tail(fragments))

\* The processing events in which the entry of chunk i is FINISHED.
FinishedSnapshots(i) ==
    { k \in Emitted(PROCESSING) : events[k].data.chunks[i].status = FINISHED }

\* C7 as stated: a chunk whose callback returned is FINISHED in exactly one
\* processing event of the request, with the whole corrected text.
C7_ExactlyOneFinishedSnapshot ==
    \A i \in Indexes :
        pipe[i] = "resolved" =>
            /\ Cardinality(FinishedSnapshots(i)) = 1
            /\ \A k \in FinishedSnapshots(i) :
                  events[k].data.chunks[i].correction
                      = Some(Concatenation(received[i]))

\* C7 amended: a chunk whose callback returned has published exactly one
\* snapshot of its own in which it is FINISHED, and in every snapshot that
\* shows it FINISHED (its own or a later one of another chunk) its
\* correction is the concatenation, in order, of all fragments received.
C7_OwnFinishedSnapshot ==
    \A i \in Indexes :
        pipe[i] = "resolved" =>
            /\ Cardinality({ k \in FinishedSnapshots(i) : sender[k] = i }) = 1
            /\ \A k \in FinishedSnapshots(i) :
                  events[k].data.chunks[i].correction
                      = Some(Concatenation(received[i]))

\* A chunk ended after two non-empty fragments and another chunk published
\* after it.
C7_Witness ==
    \E i \in Indexes :
        /\ pipe[i] = "resolved"
        /\ received[i] = << << 1 >>, << 2 >> >>
        /\ Cardinality(FinishedSnapshots(i)) > 1

\* The correction text of chunk i in event k, '' when the field is absent.
CorrectionIn(k, i) ==
    LET c == events[k].data.chunks[i].correction IN
    IF c = None THEN << >> ELSE c[1]

IsPrefix(a, b) == Len(a) <= Len(b) /\ SubSeq(b, 1, Len(a)) = a

\* C8: for every chunk, its correction in an earlier processing event is a
\* prefix of its correction in every later one.
C8_MonotonicCorrection ==
    \A j \in Emitted(PROCESSING), k \in Emitted(PROCESSING) :
        j < k =>
            \A i \in DOMAIN events[j].data.chunks :
                IsPrefix(CorrectionIn(j, i), CorrectionIn(k, i))

\* A chunk's correction grew from one fragment to two, the second state
\* being published by the other chunk.
C8_Witness ==
    \E i \in Indexes :
        \E j \in Emitted(PROCESSING), k \in Emitted(PROCESSING) :
            /\ j < k
            /\ CorrectionIn(j, i) = << 1 >>
            /\ CorrectionIn(k, i) = << 1, 2 >>
            /\ sender[k] # i

\* C9: when splitAudioIntoChunks returns, chunks holds floor(duration /
\* CHUNK_DURATION) entries, the k-th covering [k L, (k + 1) L), and the files
\* written are exactly those; no file of another length is ever written.
C9_SegmentationBoundary ==
    /\ \A f \in chunkFiles : f[2] - f[1] = CHUNK_DURATION
    /\ pc = "launch" =>
          /\ Len(chunks) = duration \div CHUNK_DURATION
          /\ \A k \in DOMAIN chunks :
                /\ chunks[k].start = (k - 1) * CHUNK_DURATION
                /\ chunks[k].end = k * CHUNK_DURATION
          /\ chunkFiles = { << chunks[k].start, chunks[k].end >> : k \in DOMAIN chunks }

\* The split returned two chunks and dropped a shorter tail.
C9_Witness ==
    /\ pc = "launch"
    /\ Len(chunks) = 2
    /\ duration > 2 * CHUNK_DURATION

\* C10: every processing event carries one entry per produced chunk, the
\* entry at (0-based) position i has id i, and from the launch of the
\* callbacks on chunksState itself keeps that shape.
C10_FixedShape ==
    /\ \A k \in Emitted(PROCESSING) :
          /\ DOMAIN events[k].data.chunks = 1 .. Len(chunks)
          /\ \A i \in 1 .. Len(chunks) : events[k].data.chunks[i].id = i - 1
    /\ joined.state # "none" =>
          /\ DOMAIN chunksState = 1 .. Len(chunks)
          /\ \A i \in 1 .. Len(chunks) : chunksState[i].id = i - 1

\* Two chunks went through every stage, each with MaxFragments publications.
C10_Witness ==
    /\ Len(chunks) = 2
    /\ \A i \in Indexes : pipe[i] = "resolved"
    /\ Cardinality(Emitted(PROCESSING)) = 2 * (MaxFragments + 3)

----------------------------------------------------------------------------
\* The errors raised before the chunk callbacks are started.
EarlyOrigins == { "mkdir", "writeFile", "ffprobe", "getAudioDuration", "splitChunk" }

\* C11: when unlink or rm failed inside cleanup, processAudio still returns
\* if every callback returned, still throws the first callback error or the
\* early error otherwise, and the cleanup error is neither what it throws
\* nor what the handler emits.
C11_CleanupFailureKeepsOutcome ==
    (Ended /\ cleanupError # None) =>
        /\ caught # cleanupError
        /\ joined.state = "resolved" => result = "returned" /\ caught = None
        /\ failures # << >> => result = "thrown" /\ caught = Some(failures[1])
        /\ joined.state = "none" =>
              result = "thrown" /\ caught[1].origin[1] \in EarlyOrigins
        /\ FinishedWith(cleanupError[1].message) = {}

\* Both chunks were processed, cleanup failed, and the handler is done.
C11_Witness ==
    /\ pc = "done"
    /\ cleanupError # None
    /\ Len(chunks) = 2
    /\ result = "returned"

----------------------------------------------------------------------------
\* Position of a status in SPLITTING -> TRANSCRIBING -> CORRECTING -> FINISHED.
Rank(status) ==
    CASE status = SPLITTING -> 1
      [] status = TRANSCRIBING -> 2
      [] status = CORRECTING -> 3
      [] status = FINISHED -> 4

\* A step never moves an entry of chunksState to an earlier status, never
\* back into SPLITTING, and never changes an entry that is FINISHED.
C12_ForwardStep ==
    \A i \in DOMAIN chunksState :
        /\ i \in DOMAIN chunksState'
        /\ Rank(chunksState'[i].status) >= Rank(chunksState[i].status)
        /\ chunksState'[i].status = SPLITTING => chunksState[i].status = SPLITTING
        /\ chunksState[i].status = FINISHED => chunksState'[i] = chunksState[i]

\* The same between two successive publications, which also show the states
\* the array goes through while the callbacks are started.
C12_ForwardPublished ==
    \A k \in Emitted(PROCESSING) :
        (k + 1) \in Emitted(PROCESSING) =>
            \A i \in DOMAIN events[k].data.chunks :
                LET before == events[k].data.chunks[i]
                    after == events[k + 1].data.chunks[i]
                IN  /\ Rank(after.status) >= Rank(before.status)
                    /\ before.status = FINISHED => after = before

\* C12: the status of every entry only moves forward along SPLITTING ->
\* TRANSCRIBING -> CORRECTING -> FINISHED, and a FINISHED entry never changes.
C12_StatusOnlyForward ==
    [] C12_ForwardPublished /\ [][C12_ForwardStep]_vars

\* One chunk is FINISHED and the other chunk has published after that.
C12_Witness ==
    \E i \in Indexes :
        /\ chunksState[i].status = FINISHED
        /\ sender # << >>
        /\ sender[Len(sender)] \notin { 0, i }
        /\ FinishedSnapshots(i) # {}

----------------------------------------------------------------------------
\* The processing events emitted by the callback of chunk i.
OwnPublications(i) == { k \in Emitted(PROCESSING) : sender[k] = i }

\* What event k shows for chunk i.
Shown(k, i) == events[k].data.chunks[i]

\* C13: while the callback of chunk i waits for its correction stream it has
\* published a snapshot showing the chunk CORRECTING, and each of its
\* publications carrying correction text comes after a publication of its
\* own showing the chunk CORRECTING with the transcription and no correction.
C13_CorrectingPublishedOnStart ==
    \A i \in Indexes :
        /\ pipe[i] = "stream" =>
              \E k \in OwnPublications(i) : Shown(k, i).status = CORRECTING
        /\ \A k \in OwnPublications(i) :
              Shown(k, i).correction # None =>
                  \E j \in OwnPublications(i) :
                      /\ j < k
                      /\ Shown(j, i).status = CORRECTING
                      /\ Shown(j, i).transcription # None
                      /\ Shown(j, i).correction = None

----------------------------------------------------------------------------
\* The publications of the callback of chunk i that carry correction text
\* with the chunk CORRECTING: the ones made inside the for-await loop.
CorrectingPublications(i) ==
    { k \in OwnPublications(i) :
        Shown(k, i).status = CORRECTING /\ Shown(k, i).correction # None }

\* The positions of the fragments of chunk i whose content is not empty.
NonEmptyFragments(i) ==
    { m \in DOMAIN received[i] : received[i][m] # << >> }

\* The correction text after the first m fragments of chunk i.
Cumulative(i, m) == Concatenation(SubSeq(received[i], 1, m))

\* C14 as stated: as many CORRECTING publications with correction text as
\* fragments received, the empty ones included.
C14_OnePublicationPerFragment ==
    \A i \in Indexes :
        Cardinality(CorrectingPublications(i)) = Len(received[i])

\* C14: one CORRECTING publication per fragment whose content is not empty,
\* each showing the cumulative concatenation up to that fragment; a fragment
\* with empty content is accumulated and not published.
C14_OnePublicationPerNonEmptyFragment ==
    \A i \in Indexes :
        /\ Cardinality(CorrectingPublications(i))
              = Cardinality(NonEmptyFragments(i))
        /\ \A m \in NonEmptyFragments(i) :
              \E k \in CorrectingPublications(i) :
                  Shown(k, i).correction = Some(Cumulative(i, m))
        /\ \A k \in CorrectingPublications(i) :
              \E m \in NonEmptyFragments(i) :
                  Shown(k, i).correction = Some(Cumulative(i, m))

\* A stream that yielded an empty fragment and then a non-empty one.
C14_Witness ==
    \E i \in Indexes :
        /\ Len(received[i]) = 2
        /\ received[i][1] = << >>
        /\ received[i][2] # << >>
        /\ Cardinality(CorrectingPublications(i)) = 1

----------------------------------------------------------------------------
\* The stage an entry shows: 0 before the callback started, 1 transcribing,
\* 2 transcribed, 3 correcting, 4 finished.
Stage(entry) ==
    CASE entry.status = SPLITTING -> 0
      [] entry.status = TRANSCRIBING /\ entry.transcription = None -> 1
      [] entry.status = TRANSCRIBING -> 2
      [] entry.status = CORRECTING -> 3
      [] entry.status = FINISHED -> 4

\* C15: the publications of the callback of chunk i start with TRANSCRIBING
\* without transcription and go through the stages in order, only the
\* CORRECTING stage being published more than once; and over all the
\* processing events of the request the stage shown for chunk i never goes
\* back and its transcription, once shown, stays the same.
C15_StageOrder ==
    \A i \in Indexes :
        /\ \A k \in OwnPublications(i) :
              /\ Stage(Shown(k, i)) >= 1
              /\ (\A j \in OwnPublications(i) : j >= k) =>
                     Stage(Shown(k, i)) = 1
        /\ \A j, k \in OwnPublications(i) :
              j < k =>
                  /\ Stage(Shown(j, i)) <= Stage(Shown(k, i))
                  /\ Stage(Shown(j, i)) = Stage(Shown(k, i)) =>
                         Stage(Shown(k, i)) = 3
        /\ \A j, k \in Emitted(PROCESSING) :
              j < k =>
                  /\ Stage(Shown(j, i)) <= Stage(Shown(k, i))
                  /\ Shown(j, i).transcription # None =>
                         Shown(k, i).transcription = Shown(j, i).transcription

\* A callback that has published every stage, while another callback
\* published in between.
C15_Witness ==
    \E i \in Indexes :
        /\ { Stage(Shown(k, i)) : k \in OwnPublications(i) } = 1 .. 4
        /\ \E j, k \in OwnPublications(i), o \in Emitted(PROCESSING) :
              j < o /\ o < k /\ sender[o] # i /\ Stage(Shown(j, i)) >= 2

----------------------------------------------------------------------------
\* The text of an optional field, absent read as empty.
TextOf(field) == IF field = None THEN << >> ELSE field[1]

\* The events appended by the step.
NewEvents == { k \in DOMAIN events' : k > Len(events) }

\* A callback that has thrown: its entry is not FINISHED, it published no
\* FINISHED snapshot, and the entry holds the fragments consumed so far.
C16_FailedState ==
    \A i \in Indexes :
        pipe[i] = "rejected" =>
            /\ chunksState[i].status # FINISHED
            /\ \A k \in OwnPublications(i) : Shown(k, i).status # FINISHED
            /\ TextOf(chunksState[i].correction) = Concatenation(received[i])

\* The step in which a callback throws writes and publishes nothing; from
\* then on the callback stays failed, its entry is not written, it
\* publishes nothing, and the events of the others show the entry as it is.
C16_FailedStep ==
    \A i \in Indexes :
        /\ (pipe[i] # "rejected" /\ pipe'[i] = "rejected") =>
              chunksState'[i] = chunksState[i] /\ events' = events
        /\ pipe[i] = "rejected" =>
              /\ pipe'[i] = "rejected"
              /\ chunksState'[i] = chunksState[i]
              /\ \A k \in NewEvents :
                    /\ sender'[k] # i
                    /\ events'[k].event = PROCESSING =>
                           events'[k].data.chunks[i] = chunksState[i]

\* C16: a callback that throws never makes its chunk FINISHED and publishes
\* nothing afterwards, and the snapshots the other callbacks publish later
\* show its entry as it was when it threw, consumed fragments included.
C16_FailedPipelineFrozen == [] C16_FailedState /\ [][C16_FailedStep]_vars

\* The only failure is a stream that threw after a fragment with content;
\* the request has failed with it and another callback has published since.
C16_Witness ==
    \E i \in Indexes :
        /\ pipe[i] = "rejected"
        /\ Len(failures) = 1
        /\ chunksState[i].correction # None
        /\ \E g \in Emitted(PROCESS_FINISHED), k \in Emitted(PROCESSING) :
              g < k /\ Shown(k, i) = chunksState[i]

----------------------------------------------------------------------------
\* The step is one of the callback of chunk i: the callback moves on, or
\* consumes a fragment.
StepOf(i) == pipe'[i] # pipe[i] \/ received'[i] # received[i]

\* A step of the callback of chunk i leaves every other entry, and the
\* object it holds, as they are.
C17_OthersUntouched ==
    \A i \in Indexes :
        StepOf(i) =>
            \A j \in Indexes \ { i } :
                /\ ~ StepOf(j)
                /\ chunksState'[j] = chunksState[j]
                /\ refs'[j] = refs[j]

\* The first publication of each callback, made while the callbacks start
\* one after the other: the entries of the callbacks not yet started are
\* still as the initialisation left them.
C17_StartUntouched ==
    \A k \in Emitted(PROCESSING) :
        Stage(Shown(k, sender[k])) = 1 =>
            \A j \in DOMAIN events[k].data.chunks :
                j > sender[k] =>
                    Shown(k, j) = ChunkProcessingData(j - 1, SPLITTING, None, None)

\* C17: the callback of chunk i writes entry i only, whatever the
\* interleaving of the callbacks.
C17_SlotDisjoint == [] C17_StartUntouched /\ [][C17_OthersUntouched]_vars

\* Two callbacks in flight, the first having written its entry after the
\* second wrote its own.
C17_Witness ==
    /\ Len(pipe) = 2
    /\ pipe[1] = "correctTranscription"
    /\ pipe[2] = "stream"
    /\ received[2] # << >>
    /\ sender[Len(sender)] = 1
    /\ chunksState[2].correction # None

----------------------------------------------------------------------------
\* Every processing event holds one entry per chunk of the request.
C18_WholeCollection ==
    \A k \in Emitted(PROCESSING) :
        DOMAIN events[k].data.chunks = DOMAIN chunksState

\* The snapshot emitted last in a step is the collection as the step leaves
\* it, which is the collection at the moment of the emission since the
\* write and the emission are not interrupted.
C18_SnapshotOfInstant ==
    (Len(events') > Len(events) /\ events'[Len(events')].event = PROCESSING)
        => events'[Len(events')].data.chunks = chunksState'

\* C18: every processing event is the whole chunksState array as it was at
\* the moment the event was emitted.
C18_SnapshotConsistency ==
    [] C18_WholeCollection /\ [][C18_SnapshotOfInstant]_vars

\* The callback of chunk 1 has just published; the snapshot also shows the
\* status the callback of chunk 2 assigned without publishing.
C18_Witness ==
    /\ Len(pipe) = 2
    /\ sender # << >>
    /\ sender[Len(sender)] = 1
    /\ events[Len(events)].data.chunks = chunksState
    /\ chunksState[1].correction # None
    /\ chunksState[2].status = CORRECTING
    /\ \A k \in OwnPublications(2) : Shown(k, 2).status # CORRECTING

----------------------------------------------------------------------------
\* No step changes what a payload already handed to the channel shows.
C19_HandedUnchanged ==
    \A k \in DOMAIN handed : handed'[k] = handed[k]

\* C19: once a snapshot has been handed to the channel nothing visible
\* through it changes; the assignment of CORRECTING leaves the snapshot
\* published with the transcription as it was.
C19_SnapshotsReadOnly == [][C19_HandedUnchanged]_vars

----------------------------------------------------------------------------
\* Every callback of the request has returned.
AllSucceeded == Indexes # {} /\ \A i \in Indexes : pipe[i] = "resolved"

\* The last processing event emitted so far.
LastSnapshot ==
    CHOOSE k \in Emitted(PROCESSING) : \A j \in Emitted(PROCESSING) : j <= k

\* C20: when every callback has returned, the last processing event shows
\* every chunk FINISHED, with its transcription and the whole of its
\* corrected text.
C20_LastSnapshotAllFinished ==
    AllSucceeded =>
        /\ Emitted(PROCESSING) # {}
        /\ \A i \in Indexes :
              /\ Shown(LastSnapshot, i).status = FINISHED
              /\ Shown(LastSnapshot, i).transcription = Some(transcription[i])
              /\ Shown(LastSnapshot, i).correction
                    = Some(Concatenation(received[i]))

\* Two chunks, both finished, the first one last, each with text.
C20_Witness ==
    /\ AllSucceeded
    /\ Len(pipe) = 2
    /\ sender[LastSnapshot] = 1
    /\ \A i \in Indexes :
          transcription[i] # << >> /\ Concatenation(received[i]) # << >>

----------------------------------------------------------------------------
\* The fields of an entry agree with its status.
FieldsAgree(entry) ==
    /\ entry.status = SPLITTING =>
          entry.transcription = None /\ entry.correction = None
    /\ entry.status = TRANSCRIBING => entry.correction = None
    /\ entry.status = CORRECTING => entry.transcription # None
    /\ entry.status = FINISHED =>
          entry.transcription # None /\ entry.correction # None

\* C21: in every processing event, as emitted and as seen later through the
\* payload handed over, each entry has the fields its status calls for.
C21_FieldsAgreeWithStatus ==
    /\ \A k \in Emitted(PROCESSING) :
          \A i \in DOMAIN events[k].data.chunks : FieldsAgree(Shown(k, i))
    /\ \A k \in DOMAIN handed :
          \A i \in DOMAIN handed[k] : FieldsAgree(handed[k][i].value)

\* The events of a request show an entry in each status, the CORRECTING
\* one both without and with correction text.
C21_Witness ==
    /\ \A status \in { SPLITTING, TRANSCRIBING, CORRECTING, FINISHED } :
          \E k \in Emitted(PROCESSING) :
              \E i \in DOMAIN events[k].data.chunks :
                  Shown(k, i).status = status
    /\ \E k \in Emitted(PROCESSING) :
          \E i \in DOMAIN events[k].data.chunks :
              Shown(k, i).status = CORRECTING /\ Shown(k, i).correction = None
    /\ \E k \in Emitted(PROCESSING) :
          \E i \in DOMAIN events[k].data.chunks :
              Shown(k, i).status = CORRECTING /\ Shown(k, i).correction # None

----------------------------------------------------------------------------
\* processAudio has ended after cleanup was called and came to its end.
CleanupRanBefore == Ended => cleanupCalls = 1 /\ ~ CleanupRunning

\* C22: when every external call returns or fails and the streams are
\* finite, processAudio eventually returns or throws, and cleanup has run
\* by then.
C22_Terminates == <> Ended /\ [] CleanupRanBefore

\* processAudio returned for a request of two chunks whose streams both
\* yielded fragments, after cleanup removed the input file.
C22_Witness ==
    /\ result = "returned"
    /\ cleanupCalls = 1
    /\ ~ inputFile
    /\ Len(pipe) = 2
    /\ \A i \in Indexes : Len(received[i]) = MaxFragments

====
